---- MODULE Spec2Model ----
(***************************************************************************)
(* The aircraft state tracker of ADSB_110725.py: one update cycle of       *)
(* AdsbTracker.fetch_aircraft_data, record by record, over the shared      *)
(* state current_aircraft, aircraft_tracks and the three cumulative lists. *)
(*                                                                         *)
(* The Qt event loop runs every timer callback to completion on one        *)
(* thread, so a cycle is a chain of steps of which only the next one is    *)
(* enabled (pc), and a new cycle starts only from pc = "idle".  The timer  *)
(* itself keeps running: a timeout that expires during a cycle waits in    *)
(* the event queue (pending).                                              *)
(***************************************************************************)
EXTENDS Integers, Sequences, FiniteSets, TLC

VARIABLES
    KEEP_ALL_TRACKS,     \* configuration flag, fixed at process start
    all_distances,       \* self.all_distances
    all_altitudes,       \* self.all_altitudes
    all_groundspeeds,    \* self.all_groundspeeds
    current_aircraft,    \* self.current_aircraft : hex_code -> entry
    aircraft_tracks,     \* self.aircraft_tracks  : hex_code -> list of [lat, lon]
    pc,                  \* "idle", "loop" inside the for loop of a cycle, then
                         \*   "extend_altitudes", "extend_groundspeeds", "refresh"
    aircraft,            \* the records the for loop has still to visit
    new_distances,       \* locals of fetch_aircraft_data
    new_altitudes,
    new_groundspeeds,
    temp_aircraft_seen,
    current_hex_codes,
    result,              \* what the last fetch_aircraft_data returned
    clock,               \* the last reading of time.time()
    feed_kind,           \* which receiver feed this behaviour draws from
    feed_count,          \* position reports the receiver has delivered so far
    feed_extras,         \* other records the streaming feed has delivered
    pending,             \* a timeout of self.timer waits in the event queue
    plotted,             \* the lengths of the three lists the plots last read
    payload,             \* history: the shape of the body the last cycle decoded
    before,              \* history: the shared state when the last cycle started
    accepted,            \* history: the observations the cycle accepted
    fault,               \* history: where the last cycle failed
    ledger,              \* history: the observations of all successful cycles
    partial,             \* history: positions per identity that cycles failed in
                         \*   their loop have stored since the last successful one
    run                  \* history: positions per identity over the successful
                         \*   cycles since its track was created, while it was
                         \*   in each of them and no cycle failed in its loop

vars == <<KEEP_ALL_TRACKS, all_distances, all_altitudes, all_groundspeeds,
          current_aircraft, aircraft_tracks, pc, aircraft, new_distances,
          new_altitudes, new_groundspeeds, temp_aircraft_seen,
          current_hex_codes, result, clock, feed_kind, feed_count,
          feed_extras, pending, plotted, payload, before, accepted, fault,
          ledger, partial, run>>

-----------------------------------------------------------------------------
(* Bounds and program constants *)

MAX_TRACK_POINTS == 10

\* records in one snapshot
MaxSnap == 2

\* records the mixed feed delivers over the life of the process
MaxObs == 3

\* position reports the streaming feed delivers over the life of the process
MaxStream == 11

\* records other than those reports (of a parked aircraft, without a
\* position, or corrupt) the streaming feed delivers over the life of the
\* process
MaxExtras == 1

-----------------------------------------------------------------------------
(* JSON values as Python sees them.  Strings are tuples of characters.     *)

Num(k) == [t |-> "num", n |-> k, s |-> <<>>]
Str(cs) == [t |-> "str", n |-> 0, s |-> cs]
None == [t |-> "none", n |-> 0, s |-> <<>>]
Absent == [t |-> "absent", n |-> 0, s |-> <<>>]
List == [t |-> "list", n |-> 0, s |-> <<>>]

GROUND == <<"g", "r", "o", "u", "n", "d">>
NA == <<"N", "/", "A">>

\* dict.get(key): None for a missing key
Get(v) == IF v = Absent THEN None ELSE v

\* dict.get(key, default)
GetOr(v, default) == IF v = Absent THEN default ELSE v

Whitespace == {" "}

Digit == [c \in {"0", "1", "2", "3", "4", "5", "6", "7", "8", "9"} |->
            CASE c = "0" -> 0 [] c = "1" -> 1 [] c = "2" -> 2 [] c = "3" -> 3
              [] c = "4" -> 4 [] c = "5" -> 5 [] c = "6" -> 6 [] c = "7" -> 7
              [] c = "8" -> 8 [] c = "9" -> 9]

RECURSIVE LStrip(_)
LStrip(cs) == IF cs # <<>> /\ Head(cs) \in Whitespace THEN LStrip(Tail(cs)) ELSE cs

RECURSIVE RStrip(_)
RStrip(cs) ==
    IF cs # <<>> /\ cs[Len(cs)] \in Whitespace
    THEN RStrip(SubSeq(cs, 1, Len(cs) - 1))
    ELSE cs

\* str.strip()
Strip(cs) == RStrip(LStrip(cs))

RECURSIVE DigitsValue(_, _)
DigitsValue(cs, acc) ==
    IF cs = <<>> THEN acc ELSE DigitsValue(Tail(cs), 10 * acc + Digit[Head(cs)])

\* float(x): a number converts; of the strings the feeds carry, one that is
\* digits inside optional whitespace converts and any other raises
\* ValueError; None and a list raise TypeError.
Float(v) ==
    CASE v.t = "num" -> [st |-> "ok", val |-> v.n]
      [] v.t = "str" ->
            LET cs == Strip(v.s)
            IN  IF cs # <<>> /\ \A i \in 1..Len(cs) : cs[i] \in DOMAIN Digit
                THEN [st |-> "ok", val |-> DigitsValue(cs, 0)]
                ELSE [st |-> "ValueError", val |-> 0]
      [] OTHER -> [st |-> "TypeError", val |-> 0]

RECURSIVE ToDigits(_)
ToDigits(k) ==
    LET d == CHOOSE c \in DOMAIN Digit : Digit[c] = k % 10
    IN  IF k < 10 THEN <<d>> ELSE Append(ToDigits(k \div 10), d)

\* str(time.time()) of a clock reading
TimeStr(now) == ToDigits(now) \o <<".", "0">>

\* haversine(receiver_pos, ac_pos, unit=Unit.MILES): the receiver coordinates
\* are placeholders in the source, so the great-circle distance of a position
\* is kept as a term of that position; a non-numeric coordinate raises.
Haversine(lat, lon) ==
    IF lat.t = "num" /\ lon.t = "num"
    THEN [st |-> "ok", val |-> [miles_to |-> <<lat.n, lon.n>>]]
    ELSE [st |-> "TypeError", val |-> [miles_to |-> <<0, 0>>]]

-----------------------------------------------------------------------------
(* One record of the "aircraft" array *)

Dict(hex, lat, lon, alt_baro, alt_geom, gs, flight) ==
    [kind |-> "dict", hex |-> hex, lat |-> lat, lon |-> lon,
     alt_baro |-> alt_baro, alt_geom |-> alt_geom, gs |-> gs, flight |-> flight]

\* an array element that is not an object
NotADict ==
    [kind |-> "str", hex |-> Absent, lat |-> Absent, lon |-> Absent,
     alt_baro |-> Absent, alt_geom |-> Absent, gs |-> Absent, flight |-> Absent]

Raise == [st |-> "raise"]
Continue == [st |-> "continue"]

\* mutant: the altitude is not tested
Missing_IgnoresAltitude(lat, lon, alt) == lat = None \/ lon = None

\* if lat is None or lon is None or alt is None
Missing(lat, lon, alt) == lat = None \/ lon = None \/ alt = None

\* The body of the for loop up to the entry stored for the map: what one
\* record yields, read at clock reading `now`.
ParseRecord(ac, now) ==
    IF ac.kind # "dict" THEN Raise
    ELSE
    LET lat == Get(ac.lat)
        lon == Get(ac.lon)
        alt == GetOr(ac.alt_baro, Get(ac.alt_geom))
    IN
    IF Missing(lat, lon, alt) THEN Continue
    ELSE
    LET alt_ft == Float(IF alt = Str(GROUND) THEN Num(0) ELSE alt)
        dist_miles == Haversine(lat, lon)
        gs_val == Get(ac.gs)
        gs_conv == Float(gs_val)
        gs_float == IF gs_val # None /\ gs_val # Str(NA) /\ gs_conv.st = "ok"
                    THEN Num(gs_conv.val) ELSE None
        hex_code == GetOr(ac.hex, Str(TimeStr(now)))
        flight == GetOr(ac.flight, Str(NA))
    IN
    IF alt_ft.st = "ValueError" THEN Continue
    ELSE IF alt_ft.st = "TypeError" THEN Raise
    ELSE IF dist_miles.st # "ok" THEN Raise
    ELSE IF gs_val # None /\ gs_val # Str(NA) /\ gs_conv.st = "TypeError" THEN Raise
    ELSE IF hex_code.t = "list" THEN Raise
    ELSE IF flight.t # "str" THEN Raise
    ELSE [st |-> "accept",
          dist_miles |-> dist_miles.val,
          alt_ft |-> alt_ft.val,
          gs_float |-> gs_float,
          hex_code |-> hex_code,
          entry |-> [lat |-> lat, lon |-> lon, alt |-> alt_ft.val,
                     flight |-> Strip(flight.s),
                     gs |-> GetOr(ac.gs, Str(NA))]]

-----------------------------------------------------------------------------
(* Dictionaries and the track store *)

EmptyDict == <<>>

\* d[k] = v
Put(d, k, v) == [x \in DOMAIN d \cup {k} |-> IF x = k THEN v ELSE d[x]]

\* mutant: the first record of an identity wins
StoreForMap_KeepFirst(seen, hex_code, entry) ==
    IF hex_code \in DOMAIN seen THEN seen ELSE Put(seen, hex_code, entry)

\* temp_aircraft_seen[hex_code] = {...}
StoreForMap(seen, hex_code, entry) == Put(seen, hex_code, entry)

\* mutant: an unknown groundspeed is left out of the list
AppendGroundspeed_SkipUnknown(groundspeeds, gs_float) ==
    IF gs_float = None THEN groundspeeds ELSE Append(groundspeeds, gs_float)

\* new_groundspeeds.append(gs_float)
AppendGroundspeed(groundspeeds, gs_float) == Append(groundspeeds, gs_float)

\* mutant: the new table is merged into the old one
ReplaceTable_Merge(table, seen) ==
    [h \in DOMAIN table \cup DOMAIN seen |->
        IF h \in DOMAIN seen THEN seen[h] ELSE table[h]]

\* self.current_aircraft = temp_aircraft_seen
ReplaceTable(table, seen) == seen

\* mutant: every record starts a new track
GetTrack_Fresh(tracks, hex_code) == <<>>

\* track = self.aircraft_tracks.get(hex_code, [])
GetTrack(tracks, hex_code) ==
    IF hex_code \in DOMAIN tracks THEN tracks[hex_code] ELSE <<>>

\* mutant: the track is never cut
LimitTrack_NoLimit(track) == track

\* mutant: the newest points are cut instead of the oldest
LimitTrack_DropNewest(track) ==
    IF Len(track) > MAX_TRACK_POINTS
    THEN SubSeq(track, 1, MAX_TRACK_POINTS)
    ELSE track

\* if len(track) > MAX_TRACK_POINTS: track = track[-MAX_TRACK_POINTS:]
LimitTrack(track) ==
    IF Len(track) > MAX_TRACK_POINTS
    THEN SubSeq(track, Len(track) - MAX_TRACK_POINTS + 1, Len(track))
    ELSE track

\* mutant: the new position is put in front of the track
UpdateTrack_Prepend(tracks, hex_code, lat, lon) ==
    Put(tracks, hex_code, LimitTrack(<<(<<lat, lon>>)>> \o GetTrack(tracks, hex_code)))

\* the track line logic of one accepted record
UpdateTrack(tracks, hex_code, lat, lon) ==
    Put(tracks, hex_code, LimitTrack(Append(GetTrack(tracks, hex_code), <<lat, lon>>)))

\* mutant: no track is ever pruned
PruneTracks_Never(tracks, keep_all, seen) == tracks

\* mutant: tracks are pruned whatever the flag says
PruneTracks_Always(tracks, keep_all, seen) ==
    [h \in DOMAIN tracks \cap seen |-> tracks[h]]

\* the conditional prune after the loop
PruneTracks(tracks, keep_all, seen) ==
    IF keep_all = 0
    THEN [h \in DOMAIN tracks \cap seen |-> tracks[h]]
    ELSE tracks

-----------------------------------------------------------------------------
(* The receiver feed: what requests.get(DATA_URL).json() can return *)

HexA == Str(<<"a">>)
HexB == Str(<<"b">>)

\* The mixed feed: well-formed records of two aircraft, records the loop
\* drops, and records with a wrongly typed field.
MixedRecords ==
    { Dict(HexA, Num(1), Num(1), Num(1000), Num(1100), Num(250), Str(<<"U", "1", " ">>)),
      Dict(HexA, Num(2), Num(1), Str(GROUND), Absent, Absent, Absent),
      Dict(HexB, Num(3), Num(1), Absent, Str(<<"2", "0">>), Str(<<"x">>), Str(<<"N", "2">>)),
      Dict(Absent, Num(4), Num(1), Num(500), Absent, Str(NA), Str(<<"N", "3">>)),
      Dict(HexB, None, Num(1), Num(1000), Absent, Num(250), Absent),
      Dict(HexB, Num(3), Num(1), Str(<<"x">>), Absent, Num(250), Absent),
      Dict(HexB, Num(3), Num(1), Num(1000), Absent, Num(250), None),
      Dict(HexB, Num(3), Num(1), List, Absent, Num(250), Absent),
      Dict(HexB, Num(3), Num(1), Num(1000), Absent, List, Absent),
      Dict(HexB, Str(<<"3">>), Num(1), Num(1000), Absent, Num(250), Absent),
      Dict(List, Num(3), Num(1), Num(1000), Absent, Num(250), Absent),
      NotADict }

\* The field feed: one aircraft whose records differ in which of the position
\* and altitude fields they carry.
FieldRecords ==
    { Dict(HexA, Num(1), Num(1), Absent, Num(2000), Num(250), Absent),
      Dict(HexA, Num(2), Num(1), None, Num(2000), Num(250), Absent),
      Dict(HexA, Num(3), Num(1), Absent, Absent, Num(250), Absent),
      Dict(HexA, Num(4), Absent, Num(1000), Absent, Num(250), Absent),
      Dict(HexA, None, Num(1), Num(1000), Absent, Num(250), Absent),
      Dict(HexA, Num(6), Num(1), Str(<<"x">>), Num(2000), Num(250), Absent),
      Dict(HexA, Num(7), Num(1), List, Absent, Num(250), Absent) }

\* The brief feed: a well-formed record, one the loop drops and one that
\* raises.
BriefRecords ==
    { Dict(HexB, Num(1), Num(1), Num(1000), Absent, Num(250), Str(<<"N", "2">>)),
      Dict(HexB, Num(2), Absent, Num(1000), Absent, Num(250), Str(<<"N", "2">>)),
      Dict(HexB, Num(2), Num(1), Num(1000), Absent, Num(250), None) }

\* the records of a feed whose arrays are arbitrary
FeedRecords(kind) ==
    CASE kind = "mixed" -> MixedRecords
      [] kind = "fields" -> FieldRecords
      [] kind = "brief" -> BriefRecords

\* The streaming feed: one aircraft reported at a new latitude in every
\* record, the k-th record of the process at latitude k.
StreamRecord(k) ==
    Dict(HexA, Num(k), Num(1), Num(1000), Absent, Num(250), Str(<<"U", "1">>))

\* a record whose label is null
NullLabel == Dict(HexA, Num(0), Num(1), Num(1000), Absent, Num(250), None)

\* a second aircraft, parked
Parked == Dict(HexB, Num(0), Num(1), Str(GROUND), Absent, Absent, Str(<<"N", "2">>))

\* a record without a latitude
NoPosition == Dict(HexA, None, Num(1), Num(1000), Absent, Num(250), Str(<<"U", "1">>))

StreamExtras == {NullLabel, Parked, NoPosition}

SeqsUpTo(S, n) == UNION {[1..k -> S] : k \in 0..n}

Min(a, b) == IF a < b THEN a ELSE b

\* the "aircraft" arrays the feed can deliver after `count` records
Snapshots(kind, count, extras) ==
    IF kind # "stream"
    THEN SeqsUpTo(FeedRecords(kind), Min(MaxSnap, MaxObs - count))
    ELSE LET room == Min(MaxSnap, MaxStream - count)
             Burst(k) == [i \in 1..k |-> StreamRecord(count + i)]
         IN  {Burst(k) : k \in 0..room}
               \cup (IF extras < MaxExtras
                     THEN {Append(Burst(k), x) :
                              k \in 0..Min(room, MaxSnap - 1), x \in StreamExtras}
                     ELSE {})

\* the records of an array that are none of the streaming feed's extras
Reports(recs) == Cardinality({i \in 1..Len(recs) : recs[i] \notin StreamExtras})

\* the decoded bodies: an object with an "aircraft" array, an object without
\* the key, an object whose "aircraft" is null, a body that is no object
Payloads(kind, count, extras) ==
    {[shape |-> "aircraft", recs |-> recs] : recs \in Snapshots(kind, count, extras)}
      \cup {[shape |-> sh, recs |-> <<>>] : sh \in {"no_key", "null", "not_a_dict"}}

-----------------------------------------------------------------------------
(* State *)

Shared ==
    [current_aircraft |-> current_aircraft,
     aircraft_tracks |-> aircraft_tracks,
     all_distances |-> all_distances,
     all_altitudes |-> all_altitudes,
     all_groundspeeds |-> all_groundspeeds]

NoFault == [where |-> "none", ac |-> NotADict]

InitWith(kind) ==
    /\ KEEP_ALL_TRACKS \in {0, 1}
    /\ all_distances = <<>>
    /\ all_altitudes = <<>>
    /\ all_groundspeeds = <<>>
    /\ current_aircraft = EmptyDict
    /\ aircraft_tracks = EmptyDict
    /\ pc = "idle"
    /\ aircraft = <<>>
    /\ new_distances = <<>>
    /\ new_altitudes = <<>>
    /\ new_groundspeeds = <<>>
    /\ temp_aircraft_seen = EmptyDict
    /\ current_hex_codes = {}
    /\ result = "none"
    /\ clock = 0
    /\ feed_kind = kind
    /\ feed_count = 0
    /\ feed_extras = 0
    /\ pending = FALSE
    /\ plotted = <<0, 0, 0>>
    /\ payload = "none"
    /\ before = [current_aircraft |-> EmptyDict, aircraft_tracks |-> EmptyDict,
                 all_distances |-> <<>>, all_altitudes |-> <<>>,
                 all_groundspeeds |-> <<>>]
    /\ accepted = <<>>
    /\ fault = NoFault
    /\ ledger = <<>>
    /\ partial = EmptyDict
    /\ run = EmptyDict

Init == InitWith("mixed")

InitTrack == InitWith("stream")

InitFields == InitWith("fields")

InitUI == InitWith("brief")

locals == <<aircraft, new_distances, new_altitudes, new_groundspeeds,
            temp_aircraft_seen, current_hex_codes>>

shared == <<current_aircraft, aircraft_tracks, all_distances, all_altitudes,
            all_groundspeeds>>

config == <<KEEP_ALL_TRACKS, feed_kind>>

feed == <<feed_count, feed_extras>>

ui == <<pending, plotted>>

\* history: the positions of identity h among the cycle's observations
RECURSIVE PositionsOf(_, _)
PositionsOf(obs, h) ==
    IF obs = <<>> THEN <<>>
    ELSE LET o == Head(obs)
         IN  (IF o.hex_code = h THEN <<(<<o.entry.lat, o.entry.lon>>)>> ELSE <<>>)
               \o PositionsOf(Tail(obs), h)

\* history: partial when a cycle starts
PartialAtStart == IF result = "True" THEN EmptyDict ELSE partial

\* history: partial after a cycle that fails in its loop
NextPartial ==
    LET ids == {accepted[i].hex_code : i \in 1..Len(accepted)}
    IN  [h \in DOMAIN partial \cup ids |->
            (IF h \in DOMAIN partial THEN partial[h] ELSE <<>>)
                \o PositionsOf(accepted, h)]

\* mutant: timeouts are delivered while a callback is running
EventLoopFree_Reentrant == TRUE

\* update_data is entered from the constructor or from the event loop, which
\* delivers a timeout only when no callback is running.
EventLoopFree == pc = "idle"

ClearLocals ==
    /\ aircraft' = <<>>
    /\ new_distances' = <<>>
    /\ new_altitudes' = <<>>
    /\ new_groundspeeds' = <<>>
    /\ temp_aircraft_seen' = EmptyDict
    /\ current_hex_codes' = {}

-----------------------------------------------------------------------------
(* One cycle of fetch_aircraft_data *)

\* mutant: a failed fetch blanks the table
FetchFailure_ClearsTable ==
    /\ EventLoopFree
    /\ pending' = FALSE
    /\ payload' = "none"
    /\ partial' = PartialAtStart
    /\ result' = "False"
    /\ fault' = [where |-> "fetch", ac |-> NotADict]
    /\ before' = Shared
    /\ accepted' = <<>>
    /\ current_aircraft' = EmptyDict
    /\ UNCHANGED <<aircraft_tracks, all_distances, all_altitudes, all_groundspeeds,
                   locals, config, ledger, pc, clock, feed, plotted, run>>

\* requests.get, raise_for_status or response.json raises: the handler of
\* RequestException (or of Exception) prints and the function returns False.
FetchFailure ==
    /\ EventLoopFree
    /\ pending' = FALSE
    /\ payload' = "none"
    /\ partial' = PartialAtStart
    /\ result' = "False"
    /\ fault' = [where |-> "fetch", ac |-> NotADict]
    /\ before' = Shared
    /\ accepted' = <<>>
    /\ UNCHANGED <<shared, locals, config, ledger, pc, clock, feed, plotted, run>>

\* The body decodes but data.get('aircraft', []) raises (the body is no
\* object) or its value cannot be iterated (null).
BadPayload ==
    /\ EventLoopFree
    /\ \E data \in Payloads(feed_kind, feed_count, feed_extras) :
          /\ data.shape \in {"null", "not_a_dict"}
          /\ payload' = data.shape
    /\ pending' = FALSE
    /\ partial' = PartialAtStart
    /\ result' = "False"
    /\ fault' = [where |-> "payload", ac |-> NotADict]
    /\ before' = Shared
    /\ accepted' = <<>>
    /\ UNCHANGED <<shared, locals, config, ledger, pc, clock, feed, plotted, run>>

\* The fetch succeeds and the for loop is entered with fresh local buffers.
BeginLoop ==
    /\ EventLoopFree
    /\ \E data \in Payloads(feed_kind, feed_count, feed_extras) :
          /\ data.shape \in {"aircraft", "no_key"}
          /\ payload' = data.shape
          /\ aircraft' = data.recs
          /\ feed_count' = feed_count + Reports(data.recs)
          /\ feed_extras' = feed_extras + (Len(data.recs) - Reports(data.recs))
          /\ clock' = IF \E i \in 1..Len(data.recs) :
                            data.recs[i].kind = "dict" /\ data.recs[i].hex = Absent
                      THEN clock + 1 ELSE clock
    /\ new_distances' = <<>>
    /\ new_altitudes' = <<>>
    /\ new_groundspeeds' = <<>>
    /\ temp_aircraft_seen' = EmptyDict
    /\ current_hex_codes' = {}
    /\ pc' = "loop"
    /\ result' = "none"
    /\ fault' = NoFault
    /\ before' = Shared
    /\ accepted' = <<>>
    /\ pending' = FALSE
    /\ partial' = PartialAtStart
    /\ UNCHANGED <<shared, config, ledger, plotted, run>>

\* `continue`: the record lacks a position or an altitude, or its altitude
\* is a string that is no number.
SkipRecord ==
    /\ pc = "loop"
    /\ aircraft # <<>>
    /\ ParseRecord(Head(aircraft), clock).st = "continue"
    /\ aircraft' = Tail(aircraft)
    /\ UNCHANGED <<shared, new_distances, new_altitudes, new_groundspeeds,
                   temp_aircraft_seen, current_hex_codes, config, ledger, pc, result,
                   clock, feed, ui, payload, before, accepted, fault, partial, run>>

\* mutant: the exception leaves fetch_aircraft_data and the slot
RaiseInRecord_Propagates ==
    /\ pc = "loop"
    /\ aircraft # <<>>
    /\ ParseRecord(Head(aircraft), clock).st = "raise"
    /\ ClearLocals
    /\ pc' = "aborted"
    /\ result' = "none"
    /\ fault' = [where |-> "record", ac |-> Head(aircraft)]
    /\ run' = EmptyDict
    /\ partial' = NextPartial
    /\ accepted' = <<>>
    /\ UNCHANGED <<shared, config, ledger, clock, feed, ui, payload, before>>

\* The record raises inside the loop body: `except Exception` prints and the
\* function returns False.  What the loop did to self.aircraft_tracks for
\* the earlier records stays.
RaiseInRecord ==
    /\ pc = "loop"
    /\ aircraft # <<>>
    /\ ParseRecord(Head(aircraft), clock).st = "raise"
    /\ ClearLocals
    /\ pc' = "idle"
    /\ result' = "False"
    /\ fault' = [where |-> "record", ac |-> Head(aircraft)]
    /\ run' = EmptyDict
    /\ partial' = NextPartial
    /\ accepted' = <<>>
    /\ UNCHANGED <<shared, config, ledger, clock, feed, ui, payload, before>>

\* The record is accepted: the per-cycle lists, the table under construction
\* and the stored track of its identity are updated.
AcceptRecord ==
    /\ pc = "loop"
    /\ aircraft # <<>>
    /\ LET ac == Head(aircraft)
           p == ParseRecord(ac, clock)
       IN  /\ p.st = "accept"
           /\ new_distances' = Append(new_distances, p.dist_miles)
           /\ new_altitudes' = Append(new_altitudes, p.alt_ft)
           /\ new_groundspeeds' = AppendGroundspeed(new_groundspeeds, p.gs_float)
           /\ current_hex_codes' = current_hex_codes \cup {p.hex_code}
           /\ temp_aircraft_seen' = StoreForMap(temp_aircraft_seen, p.hex_code, p.entry)
           /\ aircraft_tracks' =
                 UpdateTrack(aircraft_tracks, p.hex_code, p.entry.lat, p.entry.lon)
           /\ accepted' = Append(accepted, p)
           /\ clock' \in (IF ac.hex = Absent THEN {clock, clock + 1} ELSE {clock})
    /\ aircraft' = Tail(aircraft)
    /\ UNCHANGED <<current_aircraft, all_distances, all_altitudes,
                   all_groundspeeds, config, ledger, pc, result, feed, ui, payload,
                   before, fault, partial, run>>

\* history: run after a successful cycle
NextRun ==
    LET ids == {accepted[i].hex_code : i \in 1..Len(accepted)}
        fresh == {h \in ids : h \notin DOMAIN before.aircraft_tracks}
        going == {h \in ids : h \in DOMAIN run} \ fresh
    IN  [h \in fresh \cup going |->
            IF h \in fresh THEN PositionsOf(accepted, h)
            ELSE run[h] \o PositionsOf(accepted, h)]

\* After the loop: extend the cumulative lists, replace the table, prune.
Commit ==
    /\ pc = "loop"
    /\ aircraft = <<>>
    /\ all_distances' = all_distances \o new_distances
    /\ all_altitudes' = all_altitudes \o new_altitudes
    /\ all_groundspeeds' = all_groundspeeds \o new_groundspeeds
    /\ current_aircraft' = ReplaceTable(current_aircraft, temp_aircraft_seen)
    /\ aircraft_tracks' = PruneTracks(aircraft_tracks, KEEP_ALL_TRACKS, current_hex_codes)
    /\ ClearLocals
    /\ pc' = "idle"
    /\ result' = "True"
    /\ run' = NextRun
    /\ ledger' = ledger \o accepted
    /\ UNCHANGED <<config, clock, feed, ui, payload, before, accepted, fault,
                   partial>>

Next ==
    \/ FetchFailure
    \/ BadPayload
    \/ BeginLoop
    \/ SkipRecord
    \/ RaiseInRecord
    \/ AcceptRecord
    \/ Commit

Spec == Init /\ [][Next]_vars

SpecTrack == InitTrack /\ [][Next]_vars

SpecFields == InitFields /\ [][Next]_vars

-----------------------------------------------------------------------------
(* The cycle as the event loop sees it: update_data statement by statement  *)
(* after the for loop, and the timer that runs beside it                    *)

\* self.all_distances.extend(new_distances)
ExtendDistances ==
    /\ pc = "loop"
    /\ aircraft = <<>>
    /\ all_distances' = all_distances \o new_distances
    /\ pc' = "extend_altitudes"
    /\ UNCHANGED <<current_aircraft, aircraft_tracks, all_altitudes,
                   all_groundspeeds, locals, config, ledger, result, clock, feed, ui,
                   payload, before, accepted, fault, partial, run>>

\* self.all_altitudes.extend(new_altitudes)
ExtendAltitudes ==
    /\ pc = "extend_altitudes"
    /\ all_altitudes' = all_altitudes \o new_altitudes
    /\ pc' = "extend_groundspeeds"
    /\ UNCHANGED <<current_aircraft, aircraft_tracks, all_distances,
                   all_groundspeeds, locals, config, ledger, result, clock, feed, ui,
                   payload, before, accepted, fault, partial, run>>

\* The rest of fetch_aircraft_data: the third list is extended, the table
\* replaced, the tracks pruned, and True returned to update_data.
Finish ==
    /\ pc = "extend_groundspeeds"
    /\ all_groundspeeds' = all_groundspeeds \o new_groundspeeds
    /\ current_aircraft' = ReplaceTable(current_aircraft, temp_aircraft_seen)
    /\ aircraft_tracks' = PruneTracks(aircraft_tracks, KEEP_ALL_TRACKS, current_hex_codes)
    /\ ClearLocals
    /\ pc' = "refresh"
    /\ result' = "True"
    /\ run' = NextRun
    /\ ledger' = ledger \o accepted
    /\ UNCHANGED <<all_distances, all_altitudes, config, clock, feed, ui, payload,
                   before, accepted, fault, partial>>

\* mutant: the tracks are counted
AircraftCount_CountsTracks == Cardinality(DOMAIN aircraft_tracks)

\* update_map: ac_count = len(self.current_aircraft)
AircraftCount == Cardinality(DOMAIN current_aircraft)

\* what the four plot updaters read of the cumulative lists
Read == <<Len(all_distances), Len(all_altitudes), Len(all_groundspeeds)>>

\* mutant: the plots are redrawn from a callback of their own
Refresh_OwnCallback ==
    /\ plotted' = Read
    /\ UNCHANGED <<shared, locals, config, ledger, pc, result, clock, feed, pending,
                   payload, before, accepted, fault, partial, run>>

\* update_data after a successful fetch: update_map and the four plot
\* updaters, then the callback returns to the event loop.
Refresh ==
    /\ pc = "refresh"
    /\ plotted' = Read
    /\ pc' = "idle"
    /\ UNCHANGED <<shared, locals, config, ledger, result, clock, feed, pending,
                   payload, before, accepted, fault, partial, run>>

\* self.timer expires while a callback is running: the timeout is queued.
TimerTick ==
    /\ pc # "idle"
    /\ ~pending
    /\ pending' = TRUE
    /\ UNCHANGED <<shared, locals, config, ledger, pc, result, clock, feed, plotted,
                   payload, before, accepted, fault, partial, run>>

NextUI ==
    \/ FetchFailure
    \/ BadPayload
    \/ BeginLoop
    \/ SkipRecord
    \/ RaiseInRecord
    \/ AcceptRecord
    \/ ExtendDistances
    \/ ExtendAltitudes
    \/ Finish
    \/ Refresh
    \/ TimerTick

SpecUI == InitUI /\ [][NextUI]_vars

\* The interpreter goes on executing a callback it has entered.
Running ==
    \/ SkipRecord
    \/ RaiseInRecord
    \/ AcceptRecord
    \/ ExtendDistances
    \/ ExtendAltitudes
    \/ Finish
    \/ Refresh

SpecUILive == SpecUI /\ WF_vars(Running)

-----------------------------------------------------------------------------
(* Properties *)

Range(f) == {f[x] : x \in DOMAIN f}

AcceptedIds == {accepted[i].hex_code : i \in 1..Len(accepted)}

Succeeded == pc = "idle" /\ result = "True"

\* C1: when the processing of a fetched snapshot fails, the table, the track
\* store and the three cumulative lists are what they were when the cycle
\* started, wherever in the snapshot the failure is detected.
C1_ProcessingFailureLeavesStateUntouched ==
    (pc = "idle" /\ fault.where \in {"payload", "record"}) => Shared = before

\* C2: when the fetch itself fails, the cycle returns failure and the table,
\* the track store and the three cumulative lists are unchanged.
C2_FetchFailureLeavesStateUntouched ==
    fault.where = "fetch" => (pc = "idle" /\ result = "False" /\ Shared = before)

C2_Witness ==
    /\ fault.where = "fetch"
    /\ current_aircraft # EmptyDict
    /\ aircraft_tracks # EmptyDict
    /\ all_distances # <<>>

\* C3: a malformed field of a record that is an object never makes the cycle
\* fail: no cycle fails on such a record.
C3_MalformedRecordNeverFailsCycle ==
    fault.where = "record" => fault.ac.kind # "dict"

\* C4: in every state every stored track has at most MAX_TRACK_POINTS
\* positions.
C4_TrackLengthBounded ==
    \A h \in DOMAIN aircraft_tracks : Len(aircraft_tracks[h]) <= MAX_TRACK_POINTS

\* inside a cycle, an identity accepted twice in the snapshot has a full
\* track from which the oldest position is gone
C4_Witness ==
    /\ pc = "loop"
    /\ KEEP_ALL_TRACKS = 1
    /\ Len(accepted) = 2
    /\ accepted[1].hex_code = accepted[2].hex_code
    /\ LET track == GetTrack(aircraft_tracks, accepted[1].hex_code)
       IN  /\ Len(track) = MAX_TRACK_POINTS
           /\ ledger # <<>>
           /\ track[1] # <<ledger[1].entry.lat, ledger[1].entry.lon>>

\* the last min(Len(s), MAX_TRACK_POINTS) elements of s, oldest first
LastObserved(s) ==
    LET m == Min(Len(s), MAX_TRACK_POINTS)
    IN  [i \in 1..m |-> s[Len(s) - m + i]]

\* C5: between cycles, the track of an identity observed over consecutive
\* successful cycles since its track was created is exactly the last
\* min(m, MAX_TRACK_POINTS) positions observed, oldest first.
C5_TrackIsLastObserved ==
    pc = "idle" =>
        \A h \in DOMAIN run :
            /\ h \in DOMAIN aircraft_tracks
            /\ aircraft_tracks[h] = LastObserved(run[h])

\* MAX_TRACK_POINTS + 1 positions observed: the first one is evicted
C5_Witness ==
    /\ pc = "idle"
    /\ \E h \in DOMAIN run :
          /\ Len(run[h]) = MAX_TRACK_POINTS + 1
          /\ aircraft_tracks[h] = Tail(run[h])
          /\ run[h][1] \notin Range(aircraft_tracks[h])

\* C6: under the prune-inactive policy, after a successful cycle no identity
\* outside the cycle's accepted observations has a track.
C6_AbsentIdentityHasNoTrack ==
    (Succeeded /\ KEEP_ALL_TRACKS = 0) => DOMAIN aircraft_tracks \subseteq AcceptedIds

\* an identity tracked when the cycle started is absent from it and pruned,
\* while another one stays
C6_Witness ==
    /\ Succeeded
    /\ KEEP_ALL_TRACKS = 0
    /\ aircraft_tracks # EmptyDict
    /\ \E h \in DOMAIN before.aircraft_tracks :
          h \notin AcceptedIds /\ h \notin DOMAIN aircraft_tracks

\* C7: under the retain-all policy no step removes an identity from the
\* track store.
C7_RetainAllNeverDeletes ==
    [][KEEP_ALL_TRACKS = 1 => DOMAIN aircraft_tracks \subseteq DOMAIN aircraft_tracks']_vars

\* a track outlives the identity's absence from a successful cycle
C7_Witness ==
    /\ Succeeded
    /\ KEEP_ALL_TRACKS = 1
    /\ \E h \in DOMAIN aircraft_tracks : h \notin AcceptedIds

\* C8: in every state the three cumulative lists have the same length, and
\* the entries at each index are the distance, altitude and groundspeed of
\* one accepted observation.
C8_SeriesAligned ==
    /\ Len(all_distances) = Len(ledger)
    /\ Len(all_altitudes) = Len(ledger)
    /\ Len(all_groundspeeds) = Len(ledger)
    /\ \A i \in 1..Len(ledger) :
          /\ all_distances[i] = ledger[i].dist_miles
          /\ all_altitudes[i] = ledger[i].alt_ft
          /\ all_groundspeeds[i] = ledger[i].gs_float

\* an observation of unknown groundspeed sits between two of known one,
\* after a failed cycle
C8_Witness ==
    /\ pc = "idle"
    /\ result = "False"
    /\ Len(all_groundspeeds) >= 2
    /\ all_groundspeeds[1] = None
    /\ all_groundspeeds[2] # None

\* C9: after a successful cycle the keys of the table are exactly the
\* identities of the cycle's accepted observations.
C9_TableHoldsExactlyAccepted ==
    Succeeded => DOMAIN current_aircraft = AcceptedIds

\* an identity of the previous table is gone while its track is retained
C9_Witness ==
    /\ Succeeded
    /\ current_aircraft # EmptyDict
    /\ \E h \in DOMAIN before.current_aircraft :
          h \notin DOMAIN current_aircraft /\ h \in DOMAIN aircraft_tracks

\* the last observation of identity h in the cycle
LastOf(h) ==
    accepted[CHOOSE i \in 1..Len(accepted) :
                /\ accepted[i].hex_code = h
                /\ \A j \in (i + 1)..Len(accepted) : accepted[j].hex_code # h]

\* C10: after a successful cycle the entry of an identity is that of its
\* last accepted record in snapshot order.
C10_LastRecordWins ==
    Succeeded =>
        \A h \in AcceptedIds :
            /\ h \in DOMAIN current_aircraft
            /\ current_aircraft[h] = LastOf(h).entry

\* two accepted records of one identity that differ in every stored field
C10_Witness ==
    /\ Succeeded
    /\ Len(accepted) = 2
    /\ accepted[1].hex_code = accepted[2].hex_code
    /\ accepted[1].entry.lat # accepted[2].entry.lat
    /\ accepted[1].entry.alt # accepted[2].entry.alt
    /\ accepted[1].entry.flight # accepted[2].entry.flight
    /\ accepted[1].entry.gs # accepted[2].entry.gs

\* a record without a latitude, a longitude or an altitude, or whose
\* altitude is a string that is no number
Lacking(ac) ==
    /\ ac.kind = "dict"
    /\ \/ ac.lat \in {Absent, None}
       \/ ac.lon \in {Absent, None}
       \/ ac.alt_baro \in {Absent, None} /\ ac.alt_geom \in {Absent, None}
       \/ /\ ac.alt_baro.t = "str"
          /\ ac.alt_baro # Str(GROUND)
          /\ Float(ac.alt_baro).st = "ValueError"

\* C11: a record that lacks latitude, longitude or altitude, or whose
\* altitude is not numeric, is passed over and changes nothing: no entry in
\* the three lists, none in the table under construction, no track point,
\* and its identity is not among those seen.  Every accepted observation has
\* a latitude, a longitude and a numeric altitude.
C11_DroppedRecordContributesNothing ==
    /\ [](\A i \in 1..Len(ledger \o accepted) :
            LET o == (ledger \o accepted)[i]
            IN  /\ o.entry.lat.t = "num"
                /\ o.entry.lon.t = "num"
                /\ o.alt_ft \in Int
                /\ o.entry.alt = o.alt_ft)
    /\ [][(pc = "loop" /\ aircraft # <<>> /\ Lacking(Head(aircraft)))
            => /\ aircraft' = Tail(aircraft)
               /\ pc' = "loop"
               /\ UNCHANGED <<shared, new_distances, new_altitudes,
                              new_groundspeeds, temp_aircraft_seen,
                              current_hex_codes, accepted, ledger>>]_vars

\* the second cycle of the process has passed over the first record of a
\* full array and holds what the first cycle left
C11_Witness ==
    /\ pc = "loop"
    /\ feed_count = MaxObs
    /\ Len(aircraft) = MaxSnap - 1
    /\ Len(before.all_distances) = MaxObs - MaxSnap
    /\ Len(before.all_distances) > 0
    /\ accepted = <<>>
    /\ current_hex_codes = {}
    /\ Shared = before

\* C12: two cycles never overlap: a timeout that expired during a cycle is
\* delivered, and any cycle started, only when no cycle is in progress; a
\* cycle in progress is never restarted.
C12_CyclesNeverOverlap ==
    [][/\ (pending /\ ~pending') => pc = "idle"
       /\ (pc # "idle") => (before' = before /\ payload' = payload)]_vars

\* a timeout waits while a later cycle is between its first and its last
\* write to the cumulative lists
C12_Witness ==
    /\ pending
    /\ pc = "extend_groundspeeds"
    /\ new_distances # <<>>
    /\ before.current_aircraft # EmptyDict

\* the observations of identity h that successful cycles have accepted
Credited(h) == Cardinality({i \in 1..Len(ledger) : ledger[i].hex_code = h})

\* C13: every cycle that has started ends and the tracker is idle again,
\* whether the fetch and the processing succeeded or failed; after a failed
\* cycle a new one can start, and it can succeed.
C13_EveryCycleEnds ==
    /\ (pc # "idle") ~> (pc = "idle")
    /\ [](pc = "idle" => ENABLED BeginLoop)

\* a cycle has succeeded after one that failed in its loop: a track holds a
\* point that no successful cycle accounts for
C13_Witness ==
    /\ pc = "idle"
    /\ result = "True"
    /\ current_aircraft # EmptyDict
    /\ \E h \in DOMAIN aircraft_tracks : Len(aircraft_tracks[h]) > Credited(h)

\* an identity made of a clock reading
Synthesized(h) == \E t \in 0..clock : h = Str(TimeStr(t))

\* C14: the identity synthesized for a record that carries none is unique in
\* the life of the process: no other accepted record, of the same cycle or
\* of another, has that identity.
C14_SynthesizedIdentityUnique ==
    LET obs == IF result = "none" THEN ledger \o accepted ELSE ledger
    IN  \A i, j \in 1..Len(obs) :
            (i # j /\ Synthesized(obs[i].hex_code))
                => obs[i].hex_code # obs[j].hex_code

\* C15 as stated: the aircraft count shown after a successful cycle is the
\* number of observations the cycle accepted.
C15_CountIsAcceptedObservations ==
    Succeeded => AircraftCount = Len(accepted)

\* C15: the aircraft count shown after a successful cycle is the number of
\* distinct identities among the observations the cycle accepted; records
\* the loop dropped are not counted.
C15_CountIsAcceptedIdentities ==
    Succeeded => AircraftCount = Cardinality(AcceptedIds)

\* one aircraft reported twice in the snapshot is counted once
C15_Witness ==
    /\ Succeeded
    /\ Len(accepted) = 2
    /\ AircraftCount = 1
    /\ accepted[1].entry # accepted[2].entry

\* C16: a decoded body that is not an object carrying an array of records
\* (no object, an object without the "aircraft" key, an "aircraft" that is no
\* array) makes the cycle return failure with the shared state untouched.
C16_MalformedPayloadFails ==
    (pc = "idle" /\ payload \in {"no_key", "null", "not_a_dict"})
        => (result = "False" /\ Shared = before)

\* a record with a position whose barometric altitude gives no value and
\* whose geometric altitude is a number
GeometricOnly(ac) ==
    /\ ac.kind = "dict"
    /\ ac.lat.t = "num"
    /\ ac.lon.t = "num"
    /\ ac.alt_baro \in {Absent, None}
    /\ ac.alt_geom.t = "num"

\* C17: the altitude is the barometric one and falls back to the geometric
\* one whenever the barometric field gives no value: a record with a
\* position and a numeric geometric altitude is accepted with that altitude.
C17_GeometricAltitudeFallback ==
    [][(pc = "loop" /\ aircraft # <<>> /\ GeometricOnly(Head(aircraft)))
        => /\ Len(accepted') = Len(accepted) + 1
           /\ accepted'[Len(accepted')].alt_ft = Head(aircraft).alt_geom.n]_vars

\* a record that is accepted when its groundspeed is a number
AcceptableButGroundspeed(ac) ==
    ac.kind = "dict" /\ ParseRecord([ac EXCEPT !.gs = Num(0)], clock).st = "accept"

\* the groundspeed of the claim: the number the field converts to, unknown
\* when the field is absent, 'N/A' or does not convert
KnownOrUnknown(gs) ==
    IF gs \notin {Absent, None, Str(NA)} /\ Float(gs).st = "ok"
    THEN Num(Float(gs).val) ELSE None

\* C18: for every accepted record the groundspeed appended is the number the
\* field converts to, and None when the field is absent, equals 'N/A' or
\* fails the conversion; an unknown groundspeed is never stored as 0, never
\* drops the record and never raises.
C18_UnknownGroundspeedIsNone ==
    [][(pc = "loop" /\ aircraft # <<>> /\ AcceptableButGroundspeed(Head(aircraft)))
        => /\ pc' = "loop"
           /\ new_groundspeeds' =
                 Append(new_groundspeeds, KnownOrUnknown(Head(aircraft).gs))
           /\ Len(accepted') = Len(accepted) + 1]_vars

\* C19: what the plot updaters read of the three cumulative lists is either
\* the lists as they were when the cycle started or the lists after all three
\* have been extended, never the lists between the extension of
\* all_distances and that of all_groundspeeds.
C19_PlotsNeverReadTornSeries ==
    /\ plotted[1] = plotted[2]
    /\ plotted[2] = plotted[3]
    /\ \/ plotted = Read
       \/ plotted = <<Len(before.all_distances), Len(before.all_altitudes),
                      Len(before.all_groundspeeds)>>

\* the plots have been drawn, and a later cycle has extended all_distances
\* and not yet all_groundspeeds
C19_Witness ==
    /\ pc = "extend_groundspeeds"
    /\ plotted[1] > 0
    /\ Len(all_distances) > plotted[1]
    /\ Len(all_groundspeeds) < Len(all_distances)

\* C20: after every successful cycle, under either retention policy, every
\* identity of the table has a track that is not empty and whose last point
\* is the latitude and longitude the table holds for it.
C20_TableAgreesWithTrackEnd ==
    Succeeded =>
        \A h \in DOMAIN current_aircraft :
            /\ h \in DOMAIN aircraft_tracks
            /\ aircraft_tracks[h] # <<>>
            /\ aircraft_tracks[h][Len(aircraft_tracks[h])]
                 = <<current_aircraft[h].lat, current_aircraft[h].lon>>

\* two aircraft are in the table and one of them has moved since its
\* previous point
C20_Witness ==
    /\ Succeeded
    /\ Cardinality(DOMAIN current_aircraft) = 2
    /\ \E h \in DOMAIN current_aircraft :
          LET track == aircraft_tracks[h]
          IN  Len(track) >= 2 /\ track[Len(track)] # track[Len(track) - 1]

\* C21: under the prune-inactive policy, between cycles, after any sequence
\* of successful and failed cycles, the identities that have a track are the
\* identities of the table.
C21_TrackedAreTabled ==
    (pc = "idle" /\ KEEP_ALL_TRACKS = 0)
        => DOMAIN aircraft_tracks = DOMAIN current_aircraft

\* the positions that cycles failed in their loop have stored for identity h
\* since the last successful cycle before the one that has just ended
PartialOf(h) == IF h \in DOMAIN partial THEN partial[h] ELSE <<>>

\* the identities of the successful cycles before the one that has just ended
SeenEarlier ==
    {ledger[i].hex_code : i \in 1..(Len(ledger) - Len(accepted))}

\* C22: an identity that was absent from the last successful cycle and is in
\* the cycle that has just succeeded has, under the prune-inactive policy, a
\* track of only the positions stored since it came back (one point after a
\* cycle with a single record of it); under retain-all its track is its old
\* track with the new positions appended, cut to MAX_TRACK_POINTS.
C22_ReappearingIdentity ==
    Succeeded =>
        \A h \in AcceptedIds \ DOMAIN before.current_aircraft :
            /\ KEEP_ALL_TRACKS = 0 =>
                  aircraft_tracks[h]
                    = LastObserved(PartialOf(h) \o PositionsOf(accepted, h))
            /\ KEEP_ALL_TRACKS = 1 =>
                  /\ h \in SeenEarlier => h \in DOMAIN before.aircraft_tracks
                  /\ aircraft_tracks[h]
                       = LastObserved(GetTrack(before.aircraft_tracks, h)
                                        \o PositionsOf(accepted, h))

\* under prune-inactive an identity seen in an earlier successful cycle was
\* absent from the last one and is back with a single record: its track is
\* that one position
C22_Witness ==
    /\ Succeeded
    /\ KEEP_ALL_TRACKS = 0
    /\ \E h \in (AcceptedIds \cap SeenEarlier) \ DOMAIN before.current_aircraft :
          /\ Len(PositionsOf(accepted, h)) = 1
          /\ aircraft_tracks[h] = PositionsOf(accepted, h)

\* under retain-all an identity with a full track was absent from the last
\* successful cycle and is back: its oldest point has made room for the new
\* one
C22_WitnessRetainAll ==
    /\ Succeeded
    /\ KEEP_ALL_TRACKS = 1
    /\ \E h \in (AcceptedIds \cap SeenEarlier) \ DOMAIN before.current_aircraft :
          /\ Len(before.aircraft_tracks[h]) = MAX_TRACK_POINTS
          /\ Len(PositionsOf(accepted, h)) = 1
          /\ aircraft_tracks[h]
               = Tail(before.aircraft_tracks[h]) \o PositionsOf(accepted, h)

====
